---- MODULE Spec2Model ----
(***************************************************************************)
(* Model of the Ook decoder of ciphey/basemods/Decoders/ook.py:            *)
(* ook_to_brainfuck (transpiler), bracemap_and_check (validator), the      *)
(* interpreter loop of decode (tape machine) and fitness.                  *)
(*                                                                         *)
(* Texts are sequences of one-character strings.  Positions (i, idx,       *)
(* codeptr, memptr) are 0-based as in the source; the k-th element of a    *)
(* Python list l is l[k+1] here.  A str built by decode is the sequence of *)
(* the code points of its characters.                                      *)
(***************************************************************************)
EXTENDS Integers, Sequences, FiniteSets, TLC

VARIABLES
    entry,           \* the method that was called: "decode" or "bracemap_and_check"
    pc,              \* position of the call
    ctext,           \* decode's argument
    clock,           \* time.time(), in seconds since the call
    tokens, i,       \* ook_to_brainfuck: tokens, scan position
    brainfuck_code,  \* ook_to_brainfuck's list, then decode's brainfuck_code /
                     \* bracemap_and_check's program
    idx, open_stack, bracemap, legal_count, prints,   \* bracemap_and_check
    isbf,            \* decode: isbf
    memory, codeptr, memptr, result, start,           \* decode: interpreter
    retval,          \* the value the call returned
    suspended        \* the locals of a second call, while the first one runs

vars == << entry, pc, ctext, clock, tokens, i, brainfuck_code, idx, open_stack,
           bracemap, legal_count, prints, isbf, memory, codeptr, memptr,
           result, start, retval, suspended >>

-----------------------------------------------------------------------------
(* Bounds of the model *)

\* longest program over the full instruction set given to decode, as token pairs
MaxProg == 3
\* longest program over the loop instructions (- [ ] .) given to decode
MaxLoopProg == 5
\* longest program over + - . given to decode
MaxStraight == 4
\* most steps followed of a program that runs alone
MaxAloneSteps == 8
\* longest program given to bracemap_and_check directly
MaxScan == 3
\* most words of a free text given to decode
MaxWords == 3
\* an interpreter step that would make the output longer than this is not taken
MaxOut == 3
\* an interpreter step that would make the tape longer than TapeCells + this is not taken
MaxGrow == 2
\* seconds by which one tick advances the clock
ClockTick == 30

(* Constants of the program *)
timelimit == 60
TapeCells == 100
ByteMax == 255

-----------------------------------------------------------------------------
(* Values *)

None == [kind |-> "None"]
Pending == [kind |-> "pending"]
Str(s) == [kind |-> "str", val |-> s]
Dict(f) == [kind |-> "dict", map |-> f]
Tuple(b, v) == [kind |-> "tuple", bracemap |-> b, is_brainfuck |-> v]
EmptyMap == [k \in {} |-> 0]

Min(a, b) == IF a < b THEN a ELSE b

-----------------------------------------------------------------------------
(* str operations used by the decoder *)

Whitespace == {" ", "\n", "\t"}

\* str.lower(), on the characters the model's texts are made of
lower_char(c) == CASE c = "O" -> "o" [] c = "K" -> "k" [] OTHER -> c
lower(s) == [k \in 1..Len(s) |-> lower_char(s[k])]

\* str.strip(): leading and trailing whitespace removed
RECURSIVE lstrip(_)
lstrip(s) == IF s # <<>> /\ Head(s) \in Whitespace THEN lstrip(Tail(s)) ELSE s
RECURSIVE rstrip(_)
rstrip(s) ==
    IF s # <<>> /\ s[Len(s)] \in Whitespace THEN rstrip(SubSeq(s, 1, Len(s) - 1)) ELSE s
strip(s) == rstrip(lstrip(s))

\* str.split() without separator: the maximal runs of non-whitespace characters,
\* in the order of the text
word_starts(s) ==
    {k \in 1..Len(s) : s[k] \notin Whitespace /\ (k = 1 \/ s[k - 1] \in Whitespace)}
word_end(s, k) ==
    CHOOSE e \in k..Len(s) :
        /\ \A j \in k..e : s[j] \notin Whitespace
        /\ e = Len(s) \/ s[e + 1] \in Whitespace
split(s) ==
    LET starts == word_starts(s)
        nth(n) == CHOOSE k \in starts : Cardinality({j \in starts : j < k}) = n - 1
    IN  [n \in 1..Cardinality(starts) |-> SubSeq(s, nth(n), word_end(s, nth(n)))]

\* str.count(sub): number of non-overlapping occurrences, found left to right
occurrences(s, sub) == {k \in 1..(Len(s) - Len(sub) + 1) : SubSeq(s, k, k + Len(sub) - 1) = sub}
RECURSIVE count_from(_, _, _)
count_from(s, sub, k) ==
    LET later == {m \in occurrences(s, sub) : m >= k} IN
    IF later = {} THEN 0
    ELSE LET first == CHOOSE m \in later : \A n \in later : m <= n
         IN  1 + count_from(s, sub, first + Len(sub))
count(s, sub) == count_from(s, sub, 1)

-----------------------------------------------------------------------------
(* Tokens and the pair table *)

ook_dot == <<"o", "o", "k", ".">>
ook_exclamation == <<"o", "o", "k", "!">>
ook_question == <<"o", "o", "k", "?">>

\* f"{a} {b}"
pair_of(a, b) == a \o <<" ">> \o b

ook_map ==
    (pair_of(ook_dot, ook_question) :> ">") @@
    (pair_of(ook_question, ook_dot) :> "<") @@
    (pair_of(ook_dot, ook_dot) :> "+") @@
    (pair_of(ook_exclamation, ook_exclamation) :> "-") @@
    (pair_of(ook_exclamation, ook_dot) :> ".") @@
    (pair_of(ook_dot, ook_exclamation) :> ",") @@
    (pair_of(ook_exclamation, ook_question) :> "[") @@
    (pair_of(ook_question, ook_exclamation) :> "]")

\* lines 144-145: the instruction of a pair, when the pair is in the table
NoInstruction == "none"
\* (mutant) a lookup that emits a "?" for a pair the table does not have
ook_lookup_verbatim(pair) == IF pair \in DOMAIN ook_map THEN ook_map[pair] ELSE "?"
\* (mutant) a lookup with a default instruction
ook_lookup_default(pair) == IF pair \in DOMAIN ook_map THEN ook_map[pair] ELSE "+"
ook_lookup(pair) == IF pair \in DOMAIN ook_map THEN ook_map[pair] ELSE NoInstruction

legal_instructions == {"+", "-", ">", "<", "[", "]", ".", ","}

-----------------------------------------------------------------------------
(* The inputs of the model *)

\* all sequences over A of length 0..n
SeqsUpTo(A, n) == UNION {[1..k -> A] : k \in 0..n}

\* str.join
RECURSIVE join(_, _)
join(sep, words) ==
    IF words = <<>> THEN <<>>
    ELSE IF Len(words) = 1 THEN words[1]
    ELSE words[1] \o sep \o join(sep, Tail(words))

\* the token pair the table maps to instruction c
PairFor(c) == CHOOSE p \in DOMAIN ook_map : ook_map[p] = c
\* the text of a program: its instructions' token pairs, separated by one space
Encode(prog) == join(<<" ">>, [k \in 1..Len(prog) |-> PairFor(prog[k])])

LoopInstructions == {"-", "[", "]", "."}
StraightInstructions == {"+", "-", "."}

\* 65 times "+", then "."
Scenario == [k \in 1..66 |-> IF k <= 65 THEN "+" ELSE "."]

ProgramInputs ==
    SeqsUpTo(legal_instructions, MaxProg) \cup SeqsUpTo(LoopInstructions, MaxLoopProg)
        \cup SeqsUpTo(StraightInstructions, MaxStraight) \cup {Scenario}

\* words of free texts: tokens in several letter cases, and words that are no token
Words ==
    { ook_dot, ook_exclamation, ook_question,
      <<"O", "o", "k", ".">>, <<"O", "O", "K", "!">>,
      <<"o", "k", ".">>, <<"o", "o", "k">>, <<"o", "o", "k", ".", "o", "o", "k", "?">> }

\* free texts: words separated by one space, or by more whitespace and padded
FreeTexts ==
    { join(<<" ">>, ws) : ws \in SeqsUpTo(Words, MaxWords) }
        \cup { <<"\n">> \o join(<<" ", "\n">>, ws) \o <<"\t">> : ws \in SeqsUpTo(Words, MaxWords) }

\* the spelling of the Ook! language: every word starts with a capital letter
Capitalised(text) ==
    [k \in 1..Len(text) |->
        IF text[k] = "o" /\ (k = 1 \/ text[k - 1] \in Whitespace) THEN "O" ELSE text[k]]

\* the programs that are also given in the capitalised spelling
CapitalisedPrograms == SeqsUpTo(legal_instructions, MaxProg)

DecodeInputs ==
    { Encode(p) : p \in ProgramInputs }
        \cup { Capitalised(Encode(p)) : p \in CapitalisedPrograms }
        \cup FreeTexts

\* bracemap_and_check takes any str: instructions, whitespace, other characters
ScanInputs == SeqsUpTo(legal_instructions \cup {" ", "x"}, MaxScan)

-----------------------------------------------------------------------------
(* Initial state: the decoder is constructed and nothing was called.  Then one
   call is made, of decode or of bracemap_and_check. *)

\* the locals of the call the variables describe, as one value; id tells the
\* two calls apart
Frame(id) ==
    [ id |-> id, entry |-> entry, pc |-> pc, ctext |-> ctext, tokens |-> tokens,
      i |-> i, brainfuck_code |-> brainfuck_code, idx |-> idx,
      open_stack |-> open_stack, bracemap |-> bracemap, legal_count |-> legal_count,
      prints |-> prints, isbf |-> isbf, memory |-> memory, codeptr |-> codeptr,
      memptr |-> memptr, result |-> result, start |-> start, retval |-> retval ]

Init ==
    /\ entry = "none"
    /\ pc = "idle"
    /\ ctext = <<>>
    /\ brainfuck_code = <<>>
    /\ clock = 0
    /\ tokens = <<>>
    /\ i = 0
    /\ idx = 0
    /\ open_stack = <<>>
    /\ bracemap = Dict(EmptyMap)
    /\ legal_count = 0
    /\ prints = FALSE
    /\ isbf = FALSE
    /\ memory = <<>>
    /\ codeptr = 0
    /\ memptr = 0
    /\ result = <<>>
    /\ start = 0
    /\ retval = Pending
    /\ suspended = Frame(2)

\* decode is called with some text: line 40 calls ook_to_brainfuck
CallDecode ==
    /\ pc = "idle"
    /\ entry' = "decode"
    /\ ctext' \in DecodeInputs
    /\ pc' = "ook_to_brainfuck"
    /\ UNCHANGED suspended
    /\ UNCHANGED << clock, tokens, i, brainfuck_code, idx, open_stack, bracemap,
                    legal_count, prints, isbf, memory, codeptr, memptr, result,
                    start, retval >>

\* bracemap_and_check is called with some program: lines 165-171
CallBracemapAndCheck ==
    /\ pc = "idle"
    /\ entry' = "bracemap_and_check"
    /\ brainfuck_code' \in ScanInputs
    /\ pc' = "scan"
    /\ UNCHANGED suspended
    /\ UNCHANGED << ctext, clock, tokens, i, idx, open_stack, bracemap, legal_count,
                    prints, isbf, memory, codeptr, memptr, result, start, retval >>

-----------------------------------------------------------------------------
(* ook_to_brainfuck, lines 117-154 *)

\* lines 134-141: cleaned, tokens, the empty list, i = 0
Tokenize ==
    /\ pc = "ook_to_brainfuck"
    /\ tokens' = split(strip(lower(ctext)))
    /\ brainfuck_code' = <<>>
    /\ i' = 0
    /\ pc' = "pairs"
    /\ UNCHANGED suspended
    /\ UNCHANGED << entry, ctext, clock, idx, open_stack, bracemap, legal_count,
                    prints, isbf, memory, codeptr, memptr, result, start, retval >>

\* (mutant) a loop that goes on to the last token
pairs_remain_to_end(toks, k) == k < Len(toks)
\* (mutant) a loop that stops one token early
pairs_remain_short(toks, k) == k < Len(toks) - 2
\* line 142: the loop condition
pairs_remain(toks, k) == k < Len(toks) - 1

\* line 143: tokens[k] and tokens[k+1] exist
pair_in_range(toks, k) == k >= 0 /\ k + 1 < Len(toks)

\* line 147
after_pair(k) == k + 2
\* (mutant) a scan that skips two tokens after a mismatch
after_mismatch_two(k) == k + 2
\* line 149
after_mismatch(k) == k + 1

\* lines 143-149: one iteration of the pairing loop
PairStep ==
    /\ pc = "pairs"
    /\ pairs_remain(tokens, i)
    /\ IF ~pair_in_range(tokens, i)
       THEN /\ pc' = "fault"
            /\ UNCHANGED << brainfuck_code, i >>
       ELSE LET pair == pair_of(tokens[i + 1], tokens[i + 2]) IN
            /\ pc' = "pairs"
            /\ IF ook_lookup(pair) # NoInstruction
               THEN /\ brainfuck_code' = Append(brainfuck_code, ook_lookup(pair))
                    /\ i' = after_pair(i)
               ELSE /\ brainfuck_code' = brainfuck_code
                    /\ i' = after_mismatch(i)
    /\ UNCHANGED suspended
    /\ UNCHANGED << entry, ctext, clock, tokens, idx, open_stack, bracemap,
                    legal_count, prints, isbf, memory, codeptr, memptr, result,
                    start, retval >>

\* lines 151-154 and decode's lines 40-51: the transpiler returns; decode returns
\* None for no program, or sets up the interpreter and calls bracemap_and_check
PairEnd ==
    /\ pc = "pairs"
    /\ ~pairs_remain(tokens, i)
    /\ IF brainfuck_code = <<>>
       THEN /\ retval' = None
            /\ pc' = "done"
            /\ UNCHANGED << memory, codeptr, memptr, result >>
       ELSE /\ result' = <<>>
            /\ memory' = [k \in 1..TapeCells |-> 0]
            /\ codeptr' = 0
            /\ memptr' = 0
            /\ pc' = "scan"
            /\ UNCHANGED retval
    /\ UNCHANGED suspended
    /\ UNCHANGED << entry, ctext, clock, tokens, i, brainfuck_code, idx, open_stack,
                    bracemap, legal_count, prints, isbf, start >>

-----------------------------------------------------------------------------
(* bracemap_and_check, lines 156-201 *)

\* line 175: an instruction, or a character matching \s
is_legal(c) == c \in legal_instructions \/ c \in Whitespace

\* d[k] = v
dict_set(d, k, v) == [x \in DOMAIN d \cup {k} |-> IF x = k THEN v ELSE d[x]]

\* (mutant) only the direction from the opening to the closing bracket
record_pair_forward(d, opbracket, at) == dict_set(d, opbracket, at)
\* lines 188-189: both directions of a bracket pair
record_pair(d, opbracket, at) == dict_set(dict_set(d, opbracket, at), at, opbracket)

\* (mutant) the verdict without the count of legal characters
is_brainfuck_without_count(legal, program, stack, printing) ==
    Len(stack) = 0 /\ printing
\* (mutant) the verdict without the test for a "."
is_brainfuck_without_prints(legal, program, stack, printing) ==
    legal = Len(program) /\ Len(stack) = 0
\* (mutant) the verdict without the test for open brackets left
is_brainfuck_without_stack(legal, program, stack, printing) ==
    legal = Len(program) /\ printing
\* line 199
is_brainfuck(legal, program, stack, printing) ==
    legal = Len(program) /\ Len(stack) = 0 /\ printing

\* the value delivered when bracemap_and_check returns (table, verdict): to the
\* caller of bracemap_and_check, or to decode (line 51), which returns None for
\* an invalid program (lines 54-56) and else takes the start time (line 59)
Returned(table, verdict) ==
    /\ bracemap' = table
    /\ IF entry = "bracemap_and_check"
       THEN /\ retval' = Tuple(table, verdict)
            /\ pc' = "done"
            /\ UNCHANGED << isbf, start >>
       ELSE /\ isbf' = verdict
            /\ IF ~verdict
               THEN /\ retval' = None
                    /\ pc' = "done"
                    /\ UNCHANGED start
               ELSE /\ start' = clock
                    /\ pc' = "run"
                    /\ UNCHANGED retval

\* (mutant) an unmatched closing bracket reported as valid
unmatched_close_accepted == [table |-> None, verdict |-> TRUE]
\* line 193: what an unmatched closing bracket makes the scan return
unmatched_close_return == [table |-> None, verdict |-> FALSE]

\* lines 173-193: one iteration of the scan
ScanStep ==
    /\ pc = "scan"
    /\ idx < Len(brainfuck_code)
    /\ LET instruction == brainfuck_code[idx + 1] IN
       /\ legal_count' = IF is_legal(instruction) THEN legal_count + 1 ELSE legal_count
       /\ IF ~prints /\ instruction = "."
          THEN /\ prints' = TRUE
               /\ idx' = idx + 1
               /\ UNCHANGED << open_stack, bracemap, pc, retval, isbf, start >>
          ELSE IF instruction = "["
          THEN /\ open_stack' = Append(open_stack, idx)
               /\ idx' = idx + 1
               /\ UNCHANGED << prints, bracemap, pc, retval, isbf, start >>
          ELSE IF instruction = "]"
          THEN IF open_stack = <<>>
               THEN \* IndexError caught at line 190: return (None, False)
                    /\ Returned(unmatched_close_return.table, unmatched_close_return.verdict)
                    /\ UNCHANGED << open_stack, prints, idx >>
               ELSE LET opbracket == open_stack[Len(open_stack)] IN
                    /\ open_stack' = SubSeq(open_stack, 1, Len(open_stack) - 1)
                    /\ bracemap' = Dict(record_pair(bracemap.map, opbracket, idx))
                    /\ idx' = idx + 1
                    /\ UNCHANGED << prints, pc, retval, isbf, start >>
          ELSE /\ idx' = idx + 1
               /\ UNCHANGED << open_stack, prints, bracemap, pc, retval, isbf, start >>
    /\ UNCHANGED suspended
    /\ UNCHANGED << entry, ctext, clock, tokens, i, brainfuck_code, memory, codeptr,
                    memptr, result >>

\* lines 199-201: the scan reached the end of the program
ScanEnd ==
    /\ pc = "scan"
    /\ ~(idx < Len(brainfuck_code))
    /\ Returned(bracemap, is_brainfuck(legal_count, brainfuck_code, open_stack, prints))
    /\ UNCHANGED suspended
    /\ UNCHANGED << entry, ctext, clock, tokens, i, brainfuck_code, idx, open_stack,
                    legal_count, prints, memory, codeptr, memptr, result >>

-----------------------------------------------------------------------------
(* decode's interpreter loop, lines 61-115 *)

\* (mutant) a deadline check that never fires
timed_out_never(current, started) == FALSE
\* (mutant) a deadline of twice the time limit
timed_out_late(current, started) == current - started > 2 * timelimit
\* line 66
timed_out(current, started) == current - started > timelimit

\* memory[p] exists (a negative p counts from the end)
has_cell(mem, p) == -Len(mem) <= p /\ p < Len(mem)
cell(mem, p) == IF p >= 0 THEN mem[p + 1] ELSE mem[Len(mem) + p + 1]
set_cell(mem, p, v) ==
    [mem EXCEPT ![IF p >= 0 THEN p + 1 ELSE Len(mem) + p + 1] = v]

\* (mutant) an increment that does not wrap
inc_cell_unbounded(v) == v + 1
\* lines 73-76
inc_cell(v) == IF v < ByteMax THEN v + 1 ELSE 0
\* (mutant) a decrement that stops at 0
dec_cell_saturating(v) == IF v > 0 THEN v - 1 ELSE 0
\* lines 79-82
dec_cell(v) == IF v > 0 THEN v - 1 ELSE ByteMax
\* (mutant) a tape that does not grow
grown_not(mem, p) == mem
\* (mutant) a tape that grows by two cells
grown_twice(mem, p) == IF p = Len(mem) - 1 THEN Append(Append(mem, 0), 0) ELSE mem
\* lines 85-86
grown(mem, p) == IF p = Len(mem) - 1 THEN Append(mem, 0) ELSE mem
\* line 87
right_of(p) == p + 1
\* (mutant) a move to the left that does not wrap
left_of_unwrapped(mem, p) == p - 1
\* lines 90-93
left_of(mem, p) == IF p = 0 THEN Len(mem) - 1 ELSE p - 1
\* (mutant) an input instruction that leaves the cell alone
after_input_kept(v) == v
\* line 110: the cell after ","
after_input(v) == 0
\* (mutant) a "]" that never jumps back
takes_jump_forward_only(cmd, v) == cmd = "[" /\ v = 0
\* lines 96, 100: the conditions under which the jump is taken
takes_jump(cmd, v) == (cmd = "[" /\ v = 0) \/ (cmd = "]" /\ v # 0)
\* bracemap[cp] exists
has_jump(table, cp) == table.kind = "dict" /\ cp \in DOMAIN table.map
\* (mutant) a jump that lands two past the matching bracket
after_jump_twice(table, cp) == table.map[cp] + 2
\* (mutant) a jump that is not followed by line 112
after_jump_only(table, cp) == table.map[cp]
\* lines 97, 101 followed by line 112
after_jump(table, cp) == table.map[cp] + 1
\* line 112
after_step(cp) == cp + 1
\* chr(v) is defined for the code points 0..0x10FFFF
chr_defined(v) == v \in 0..1114111

\* the instructions that read or write memory[memptr]
uses_cell(cmd) == cmd \in {"+", "-", "[", "]", ".", ","}

\* line 61 false: lines 114-115
LoopExit ==
    /\ pc = "run"
    /\ ~(codeptr < Len(brainfuck_code))
    /\ retval' = Str(result)
    /\ pc' = "done"
    /\ UNCHANGED suspended
    /\ UNCHANGED << entry, ctext, clock, tokens, i, brainfuck_code, idx, open_stack,
                    bracemap, legal_count, prints, isbf, memory, codeptr, memptr,
                    result, start >>

\* lines 63-68: the deadline has passed
Timeout ==
    /\ pc = "run"
    /\ codeptr < Len(brainfuck_code)
    /\ timed_out(clock, start)
    /\ retval' = None
    /\ pc' = "done"
    /\ UNCHANGED suspended
    /\ UNCHANGED << entry, ctext, clock, tokens, i, brainfuck_code, idx, open_stack,
                    bracemap, legal_count, prints, isbf, memory, codeptr, memptr,
                    result, start >>

\* lines 63-112: one instruction
Exec ==
    /\ pc = "run"
    /\ codeptr < Len(brainfuck_code)
    /\ ~timed_out(clock, start)
    /\ LET cmd == brainfuck_code[codeptr + 1] IN
       /\ cmd = "." => Len(result) < MaxOut
       /\ (cmd = ">" /\ memptr = Len(memory) - 1) => Len(memory) < TapeCells + MaxGrow
       /\ IF \/ uses_cell(cmd) /\ ~has_cell(memory, memptr)
             \/ cmd \in {"[", "]"} /\ takes_jump(cmd, cell(memory, memptr))
                                    /\ ~has_jump(bracemap, codeptr)
             \/ cmd = "." /\ ~chr_defined(cell(memory, memptr))
          THEN \* IndexError, KeyError/TypeError, ValueError
               /\ pc' = "fault"
               /\ UNCHANGED << memory, memptr, codeptr, result >>
          ELSE /\ pc' = "run"
               /\ memory' =
                    CASE cmd = "+" -> set_cell(memory, memptr, inc_cell(cell(memory, memptr)))
                      [] cmd = "-" -> set_cell(memory, memptr, dec_cell(cell(memory, memptr)))
                      [] cmd = ">" -> grown(memory, memptr)
                      [] cmd = "," -> set_cell(memory, memptr, after_input(cell(memory, memptr)))
                      [] OTHER -> memory
               /\ memptr' =
                    CASE cmd = ">" -> right_of(memptr)
                      [] cmd = "<" -> left_of(memory, memptr)
                      [] OTHER -> memptr
               /\ result' =
                    IF cmd = "." THEN Append(result, cell(memory, memptr)) ELSE result
               /\ codeptr' =
                    IF cmd \in {"[", "]"} /\ takes_jump(cmd, cell(memory, memptr))
                    THEN after_jump(bracemap, codeptr)
                    ELSE after_step(codeptr)
    /\ UNCHANGED suspended
    /\ UNCHANGED << entry, ctext, clock, tokens, i, brainfuck_code, idx, open_stack,
                    bracemap, legal_count, prints, isbf, start, retval >>

\* time passes while the interpreter runs; the clock is followed up to the first
\* value past the deadline
Tick ==
    /\ pc = "run"
    /\ ~timed_out(clock, start)
    /\ clock' = Min(clock + ClockTick, start + timelimit + 1)
    /\ UNCHANGED suspended
    /\ UNCHANGED << entry, pc, ctext, tokens, i, brainfuck_code, idx, open_stack,
                    bracemap, legal_count, prints, isbf, memory, codeptr, memptr,
                    result, start, retval >>

-----------------------------------------------------------------------------
(* fitness, lines 221-252 *)

Least(S) == CHOOSE m \in S : \A n \in S : m <= n
Greatest(S) == CHOOSE m \in S : \A n \in S : m >= n

\* The score, multiplied by 10 * total_chars * max_tokens to stay in the integers:
\* 0 exactly when fitness returns 0.0.  The proportion exceeds 0.1 exactly when
\* ten times the number of markers exceeds the number of characters.
fitness(text) ==
    LET ook_dot_count == count(lower(text), ook_dot)
        ook_exclamation_count == count(lower(text), ook_exclamation)
        ook_question_count == count(lower(text), ook_question)
        total_chars == Len(text)
        markers == ook_dot_count + ook_exclamation_count + ook_question_count
        counts == {ook_dot_count, ook_exclamation_count, ook_question_count}
    IN  IF total_chars = 0 THEN 0
        ELSE IF /\ 10 * markers > total_chars
                /\ ook_dot_count > 0 /\ ook_exclamation_count > 0 /\ ook_question_count > 0
             THEN 7 * markers * Greatest(counts) + 3 * Least(counts) * total_chars
             ELSE 0

-----------------------------------------------------------------------------

Next ==
    \/ CallDecode
    \/ CallBracemapAndCheck
    \/ Tokenize
    \/ PairStep
    \/ PairEnd
    \/ ScanStep
    \/ ScanEnd
    \/ LoopExit
    \/ Timeout
    \/ Exec
    \/ Tick

Spec == Init /\ [][Next]_vars

\* the interpreter keeps taking steps and the clock keeps advancing
Run == Exec \/ Timeout \/ LoopExit
FairSpec == Spec /\ WF_vars(Tick) /\ WF_vars(Run)

-----------------------------------------------------------------------------
(* Two calls of decode whose steps are interleaved.  The variables are the
   locals of the call that is taking steps; the locals of the other call are
   kept in suspended.  The clock is the same for both. *)

\* the programs given to the two calls: straight-line ones, a move to the left
\* of cell 0 and back (the tape grows), loops that are entered and skipped,
\* and programs the validator rejects
ConcPrograms ==
    { <<>>,
      << "+", "." >>,
      << "-", "." >>,
      << "<", "+", ".", ">", "." >>,
      << "+", "[", ".", ",", "]" >>,
      << "[", ".", "]", ">", "." >>,
      << "+" >>,
      << "]", "." >> }

ConcInputs == { Encode(p) : p \in ConcPrograms }

\* decode is called with some text: line 40 calls ook_to_brainfuck
ConcCallDecode ==
    /\ pc = "idle"
    /\ entry' = "decode"
    /\ ctext' \in ConcInputs
    /\ pc' = "ook_to_brainfuck"
    /\ UNCHANGED suspended
    /\ UNCHANGED << clock, tokens, i, brainfuck_code, idx, open_stack, bracemap,
                    legal_count, prints, isbf, memory, codeptr, memptr, result,
                    start, retval >>

\* (mutant) one tape for all calls: the call that goes on finds the tape as the
\* other call left it
own_tape_shared(own, left) == left
\* line 47: the tape is a list the call creates; no other call refers to it
own_tape(own, left) == own

\* the other call goes on: the locals of the call that took steps are kept and
\* the variables become the locals of the other call
Switch ==
    /\ suspended' = Frame(3 - suspended.id)
    /\ entry' = suspended.entry
    /\ pc' = suspended.pc
    /\ ctext' = suspended.ctext
    /\ tokens' = suspended.tokens
    /\ i' = suspended.i
    /\ brainfuck_code' = suspended.brainfuck_code
    /\ idx' = suspended.idx
    /\ open_stack' = suspended.open_stack
    /\ bracemap' = suspended.bracemap
    /\ legal_count' = suspended.legal_count
    /\ prints' = suspended.prints
    /\ isbf' = suspended.isbf
    /\ memory' = own_tape(suspended.memory, memory)
    /\ codeptr' = suspended.codeptr
    /\ memptr' = suspended.memptr
    /\ result' = suspended.result
    /\ start' = suspended.start
    /\ retval' = suspended.retval
    /\ UNCHANGED clock

ConcNext ==
    \/ ConcCallDecode
    \/ Tokenize
    \/ PairStep
    \/ PairEnd
    \/ ScanStep
    \/ ScanEnd
    \/ LoopExit
    \/ Timeout
    \/ Exec
    \/ Tick
    \/ Switch

ConcSpec == Init /\ [][ConcNext]_vars

-----------------------------------------------------------------------------
(* What the claims speak of, stated without the decoder's own operators *)

\* the deadline has passed: more than 60 seconds since the start time
DeadlinePassed == clock - start > 60

\* number of "+" minus number of "-" among the first n instructions of p
PlusMinus(p, n) ==
    Cardinality({j \in 1..n : p[j] = "+"}) - Cardinality({j \in 1..n : p[j] = "-"})

DotPositions(p) == {j \in 1..Len(p) : p[j] = "."}

\* the output of a program of "+", "-" and "." by arithmetic modulo 256
Predicted(p) ==
    LET dots == DotPositions(p)
        nth(k) == CHOOSE d \in dots : Cardinality({j \in dots : j < d}) = k - 1
    IN  [k \in 1..Cardinality(dots) |-> PlusMinus(p, nth(k)) % 256]

\* the programs of "+", "-" and "." with at least one ".", and their texts
StraightPrograms ==
    {p \in ProgramInputs : DotPositions(p) # {} /\ \A j \in 1..Len(p) : p[j] \in {"+", "-", "."}}
StraightTexts == {Encode(p) : p \in StraightPrograms}
StraightProgramOf == [t \in StraightTexts |-> CHOOSE p \in StraightPrograms : Encode(p) = t]

\* C1 as stated: decode of a text of "+", "-" and "." pairs with a "." pair
\* returns the string predicted by arithmetic modulo 256.
C1_DecodesStraightLine ==
    (entry = "decode" /\ pc = "done" /\ ctext \in StraightTexts)
        => retval = Str(Predicted(StraightProgramOf[ctext]))

\* C1 amended: decode of such a text returns the predicted string, or None when
\* the deadline passed before the last instruction was executed.
C1_DecodesStraightLineOrTimesOut ==
    (entry = "decode" /\ pc \in {"done", "fault"} /\ ctext \in StraightTexts)
        => /\ pc = "done"
           /\ \/ retval = Str(Predicted(StraightProgramOf[ctext]))
              \/ retval = None /\ DeadlinePassed /\ codeptr < Len(brainfuck_code)

\* 65 "+" pairs and one "." pair were decoded to "A"
C1_Witness ==
    /\ entry = "decode" /\ pc = "done"
    /\ ctext = Encode(Scenario)
    /\ retval = Str(<<65>>)

\* programs whose loop never ends: the test cell is 1 and the body leaves it
InfiniteLoops == { <<"-", "[", "]", ".">>, <<"-", "[", ".", "]">> }

\* C2: under FairSpec every run of the interpreter ends: with the output buffer
\* once the instruction pointer is past the end of the program, or with None once
\* the deadline has passed; a program whose loop never ends ends with None.
C2_InterpreterTerminates ==
    /\ (pc = "run") ~>
          /\ pc = "done"
          /\ \/ retval = Str(result) /\ codeptr >= Len(brainfuck_code)
             \/ retval = None /\ DeadlinePassed
    /\ (pc = "run" /\ brainfuck_code \in InfiniteLoops) ~> (pc = "done" /\ retval = None)

\* a loop that never ends was stopped by the deadline
C2_Witness ==
    /\ entry = "decode" /\ pc = "done"
    /\ brainfuck_code = <<"-", "[", "]", ".">>
    /\ retval = None
    /\ DeadlinePassed

\* C3: when an instruction is due and the deadline has passed, the next step
\* returns None and leaves tape, tape pointer and output buffer as they are; a
\* string is returned only with the instruction pointer past the end of the program.
C3_DeadlineBeforeEachStep ==
    [][ /\ (pc = "run" /\ codeptr < Len(brainfuck_code) /\ DeadlinePassed)
            => /\ pc' = "done" /\ retval' = None
               /\ memory' = memory /\ memptr' = memptr /\ result' = result
        /\ (retval.kind # "str" /\ retval'.kind = "str")
            => /\ codeptr >= Len(brainfuck_code)
               /\ retval' = Str(result) ]_vars

\* the deadline passed with output in the buffer, and None was returned
C3_Witness ==
    /\ entry = "decode" /\ pc = "done"
    /\ retval = None
    /\ DeadlinePassed
    /\ result # <<>>
    /\ codeptr < Len(brainfuck_code)

\* C4: decode never faults: when the current instruction uses the cell, the tape
\* pointer is the index of an existing cell; when it takes a jump, the jump table
\* has an entry for its position; when it is ".", the cell is in 0..255; and
\* decode ends with a string or None.
C4_NoFault ==
    entry = "decode" =>
        /\ pc # "fault"
        /\ pc = "done" => retval.kind \in {"str", "None"}
        /\ (pc = "run" /\ codeptr < Len(brainfuck_code)) =>
              LET cmd == brainfuck_code[codeptr + 1] IN
              /\ cmd \in {"+", "-", "[", "]", ".", ","}
                    => (0 <= memptr /\ memptr < Len(memory))
              /\ (cmd = "[" /\ memory[memptr + 1] = 0) \/ (cmd = "]" /\ memory[memptr + 1] # 0)
                    => (bracemap.kind = "dict" /\ codeptr \in DOMAIN bracemap.map)
              /\ cmd = "." => memory[memptr + 1] \in 0..255

\* the cell appended to the tape was written to the output, and decode returned
C4_Witness ==
    /\ entry = "decode" /\ pc = "done"
    /\ retval.kind = "str"
    /\ Len(memory) > 100
    /\ memptr = Len(memory) - 1
    /\ brainfuck_code[Len(brainfuck_code)] = "."

\* brackets of positions a..b of p: opened minus closed
Depth(p, a, b) ==
    Cardinality({j \in a..b : p[j] = "["}) - Cardinality({j \in a..b : p[j] = "]"})
\* positions a..b of p are bracket-balanced
BalancedRange(p, a, b) ==
    /\ \A e \in a..b : Depth(p, a, e) >= 0
    /\ Depth(p, a, b) = 0
Balanced(p) == BalancedRange(p, 1, Len(p))
AllLegal(p) ==
    \A j \in 1..Len(p) : p[j] \in {"+", "-", ">", "<", "[", "]", ".", ",", " ", "\n", "\t"}
\* not malformed: at least one instruction, balanced brackets, a "."
WellFormed(p) == p # <<>> /\ Balanced(p) /\ DotPositions(p) # {}

\* C5: the interpreter runs only programs that are not malformed; for a malformed
\* program decode returns None and no instruction was executed (instruction
\* pointer, tape pointer, tape and output buffer are as created).
C5_MalformedNeverRuns ==
    entry = "decode" =>
        /\ pc = "run" => (WellFormed(brainfuck_code) /\ isbf)
        /\ (pc \in {"done", "fault"} /\ ~WellFormed(brainfuck_code)) =>
              /\ pc = "done" /\ retval = None
              /\ codeptr = 0 /\ memptr = 0 /\ result = <<>>
              /\ \A k \in 1..Len(memory) : memory[k] = 0

\* a program with a "." and an opening bracket that is never closed was refused
C5_Witness ==
    /\ entry = "decode" /\ pc = "done"
    /\ retval = None
    /\ DotPositions(brainfuck_code) # {}
    /\ Depth(brainfuck_code, 1, Len(brainfuck_code)) > 0
    /\ codeptr = 0

\* C6 as stated: a text that fitness scores 0.0 (in particular a text without
\* one of the three markers) is not decoded to a string: decode returns None.
C6_RejectedTextNotDecoded ==
    (entry = "decode" /\ pc = "done" /\ fitness(ctext) = 0) => retval = None

\* no marker "ook.", "ook!" or "ook?" occurs in the text, in any letter case
NoMarker(text) ==
    \A k \in 1..Len(text) :
        ~(/\ k + 3 <= Len(text)
          /\ text[k] \in {"o", "O"} /\ text[k + 1] \in {"o", "O"} /\ text[k + 2] \in {"k", "K"}
          /\ text[k + 3] \in {".", "!", "?"})

\* C7: for a text without any marker no instruction is emitted, no interpreter
\* step is taken and decode returns None.
C7_NoMarkerNoDecode ==
    (entry = "decode" /\ NoMarker(ctext)) =>
        /\ brainfuck_code = <<>>
        /\ pc \in {"ook_to_brainfuck", "pairs", "done"}
        /\ pc = "done" => retval = None
        /\ codeptr = 0 /\ memory = <<>> /\ result = <<>>

\* a text of several words without a marker was scanned and refused
C7_Witness ==
    /\ entry = "decode" /\ pc = "done"
    /\ NoMarker(ctext)
    /\ Len(tokens) >= 2
    /\ i >= 1
    /\ retval = None

\* the validator has returned its verdict on brainfuck_code
ValidatorReturned ==
    \/ entry = "bracemap_and_check" /\ pc = "done"
    \/ entry = "decode" /\ (pc = "run" \/ (pc = "done" /\ brainfuck_code # <<>>))
\* the verdict it returned
Verdict == IF entry = "bracemap_and_check" THEN retval.is_brainfuck ELSE isbf

BracketPositions(p) == {k \in 0..(Len(p) - 1) : p[k + 1] \in {"[", "]"}}

\* C8: the jump table of a program reported valid is defined exactly on the
\* positions of "[" and "]", is symmetric, and maps every "[" to a later "]"
\* with a bracket-balanced segment strictly between the two.
C8_JumpTable ==
    (ValidatorReturned /\ Verdict) =>
        /\ bracemap.kind = "dict"
        /\ LET table == bracemap.map
               p == brainfuck_code
           IN  /\ DOMAIN table = BracketPositions(p)
               /\ \A k \in DOMAIN table : table[k] \in DOMAIN table /\ table[table[k]] = k
               /\ \A k \in DOMAIN table :
                     p[k + 1] = "[" =>
                        /\ table[k] > k
                        /\ p[table[k] + 1] = "]"
                        /\ BalancedRange(p, k + 2, table[k])

\* a valid program with one loop inside another got its jump table
C8_Witness ==
    /\ ValidatorReturned /\ Verdict
    /\ brainfuck_code = <<"[", "[", ".", "]", "]">>
    /\ bracemap.map[0] = 4
    /\ bracemap.map[3] = 1

\* C9: the verdict is TRUE exactly when every character is an instruction or
\* whitespace, the brackets are balanced and a "." occurs.
C9_Verdict ==
    ValidatorReturned =>
        (Verdict <=> (AllLegal(brainfuck_code) /\ Balanced(brainfuck_code)
                         /\ DotPositions(brainfuck_code) # {}))

\* a program with a "." and a "[" that no "]" follows was refused at the end of the scan
C9_Witness ==
    /\ entry = "bracemap_and_check" /\ pc = "done"
    /\ ~retval.is_brainfuck
    /\ idx = Len(brainfuck_code)
    /\ AllLegal(brainfuck_code)
    /\ DotPositions(brainfuck_code) # {}
    /\ open_stack # <<>>
    /\ \A j \in 1..Len(brainfuck_code) : brainfuck_code[j] # "]"

\* a "]" is being scanned with the open-stack empty
UnmatchedCloseDue ==
    /\ pc = "scan"
    /\ idx < Len(brainfuck_code)
    /\ brainfuck_code[idx + 1] = "]"
    /\ open_stack = <<>>

\* the validator returns the verdict FALSE and the scan stays at its position
StopsInvalid ==
    /\ pc' = "done"
    /\ idx' = idx
    /\ IF entry = "bracemap_and_check"
       THEN retval'.is_brainfuck = FALSE
       ELSE isbf' = FALSE /\ retval' = None

\* C10 as stated: on a "]" scanned with the open-stack empty the validator stops
\* at that position and returns the verdict FALSE with an empty or partial jump
\* table (a table holding no more than the pairs recorded so far).
C10_StopsWithPartialTable ==
    [][ UnmatchedCloseDue =>
          /\ StopsInvalid
          /\ bracemap'.kind = "dict"
          /\ \A k \in DOMAIN bracemap'.map :
                k \in DOMAIN bracemap.map /\ bracemap'.map[k] = bracemap.map[k] ]_vars

\* C10 amended: on a "]" scanned with the open-stack empty the validator stops at
\* that position and returns the verdict FALSE with None in place of the jump
\* table, whatever follows that position.
C10_StopsWithoutTable ==
    [][ UnmatchedCloseDue =>
          /\ StopsInvalid
          /\ bracemap' = None
          /\ entry = "bracemap_and_check" => retval' = Tuple(None, FALSE) ]_vars

\* an unmatched "]" stopped the scan before the end of the program
C10_Witness ==
    /\ entry = "bracemap_and_check" /\ pc = "done"
    /\ retval = Tuple(None, FALSE)
    /\ idx < Len(brainfuck_code) - 1
    /\ brainfuck_code[idx + 1] = "]"
    /\ open_stack = <<>>

-----------------------------------------------------------------------------
(* Steps of the interpreter, recognised from the state before and after *)

\* the instruction the interpreter is about to execute
AtInstruction(c) ==
    /\ pc = "run"
    /\ codeptr < Len(brainfuck_code)
    /\ brainfuck_code[codeptr + 1] = c

\* the interpreter executed its current instruction: in this step neither a
\* return nor the clock
Executes(c) == AtInstruction(c) /\ pc' # "done" /\ clock' = clock

\* the tape after the step differs from the tape before at most in cell p
OnlyCellChanged(p) ==
    /\ Len(memory') = Len(memory)
    /\ \A k \in 0..(Len(memory) - 1) : k # p => memory'[k + 1] = memory[k + 1]

\* C11: "+" takes a cell holding 255 to 0 and any other cell to its value plus
\* one, "-" takes a cell holding 0 to 255 and any other cell to its value minus
\* one, neither faults, and every cell of the tape stays within 0..255.
C11_CellArithmetic ==
    [][ /\ Executes("+") =>
            /\ pc' = "run"
            /\ memory'[memptr + 1] =
                   IF memory[memptr + 1] = 255 THEN 0 ELSE memory[memptr + 1] + 1
        /\ Executes("-") =>
            /\ pc' = "run"
            /\ memory'[memptr + 1] =
                   IF memory[memptr + 1] = 0 THEN 255 ELSE memory[memptr + 1] - 1
        /\ \A k \in 1..Len(memory') : memory'[k] \in 0..255 ]_vars

\* "+" was executed on a cell holding 255: after "-+" the cell is 0 again
C11_Witness ==
    /\ pc = "run"
    /\ brainfuck_code = << "-", "+", "." >>
    /\ codeptr = 2
    /\ memory[1] = 0

-----------------------------------------------------------------------------
(* decode's docstring, lines 14-35 *)

\* lines 22-29: the table of the docstring, on lower-cased tokens
docstring_map ==
    pair_of(ook_dot, ook_dot) :> ">" @@
    pair_of(ook_exclamation, ook_exclamation) :> "<" @@
    pair_of(ook_dot, ook_exclamation) :> "+" @@
    pair_of(ook_exclamation, ook_dot) :> "-" @@
    pair_of(ook_dot, ook_question) :> "." @@
    pair_of(ook_question, ook_dot) :> "," @@
    pair_of(ook_exclamation, ook_question) :> "[" @@
    pair_of(ook_question, ook_exclamation) :> "]"

\* the pairing loop is about to look at a pair of tokens
AtPair == pc = "pairs" /\ i >= 0 /\ i + 1 < Len(tokens)

\* C13: the transpiler implements the table of decode's docstring: a pair of
\* that table is translated to the instruction the docstring gives for it.
C13_DocstringTable ==
    [][ (AtPair /\ pair_of(tokens[i + 1], tokens[i + 2]) \in DOMAIN docstring_map) =>
            brainfuck_code' =
                Append(brainfuck_code, docstring_map[pair_of(tokens[i + 1], tokens[i + 2])]) ]_vars

\* C14: the memory pointer wraps in both directions, as decode's docstring
\* says: ">" on the last cell moves it to cell 0 of the same tape, "<" on cell 0
\* moves it to the last cell.
C14_PointerWrapsBothWays ==
    [][ /\ (Executes(">") /\ memptr = Len(memory) - 1) =>
            (memptr' = 0 /\ memory' = memory)
        /\ (Executes("<") /\ memptr = 0) =>
            (memptr' = Len(memory) - 1 /\ memory' = memory) ]_vars

-----------------------------------------------------------------------------
(* Texts that are sequences of token pairs *)

\* word lists that are one or more pairs of the table, in any letter case
PairSequences ==
    { ws \in SeqsUpTo(Words, MaxWords) :
        /\ Len(ws) >= 2
        /\ Len(ws) % 2 = 0
        /\ \A j \in 1..(Len(ws) \div 2) :
              pair_of(lower(ws[2 * j - 1]), lower(ws[2 * j])) \in DOMAIN ook_map }

\* the instructions the table gives for the pairs of a word list
InstructionsOf(ws) ==
    [j \in 1..(Len(ws) \div 2) |-> ook_map[pair_of(lower(ws[2 * j - 1]), lower(ws[2 * j]))]]

\* the texts made of k >= 1 pairs, each with the k instructions of its pairs
PairTexts ==
    { [text |-> Encode(p), prog |-> p] : p \in ProgramInputs \ {<<>>} }
        \cup { [text |-> Capitalised(Encode(p)), prog |-> p] :
                    p \in CapitalisedPrograms \ {<<>>} }
        \cup { [text |-> join(<<" ">>, ws), prog |-> InstructionsOf(ws)] :
                    ws \in PairSequences }
        \cup { [text |-> <<"\n">> \o join(<<" ", "\n">>, ws) \o <<"\t">>,
                 prog |-> InstructionsOf(ws)] : ws \in PairSequences }

PairTextSet == { r.text : r \in PairTexts }

\* the transpiler has returned to decode, or failed
Transpiled == entry = "decode" /\ pc \notin {"idle", "ook_to_brainfuck", "pairs"}

\* C15: the eight token pairs of the table map one-to-one onto the eight
\* instructions, and a text that is k >= 1 whitespace-separated pairs of the
\* table, in any letter case, is transpiled to exactly k instructions, the i-th
\* being the one the table gives for the i-th pair.
C15_PairsToInstructions ==
    /\ Cardinality(DOMAIN ook_map) = 8
    /\ \A c \in {">", "<", "+", "-", ".", ",", "[", "]"} :
          Cardinality({ p \in DOMAIN ook_map : ook_map[p] = c }) = 1
    /\ (Transpiled /\ ctext \in PairTextSet) =>
          [text |-> ctext, prog |-> brainfuck_code] \in PairTexts

\* a text of three pairs in the capitalised spelling was transpiled and decoded
C15_Witness ==
    /\ Transpiled
    /\ pc = "done"
    /\ ctext \in PairTextSet
    /\ ctext[1] = "O"
    /\ Len(brainfuck_code) = 3
    /\ retval.kind = "str"

-----------------------------------------------------------------------------
(* Jumps *)

\* the interpreter executed an instruction, whichever
ExecutesAny == pc = "run" /\ codeptr < Len(brainfuck_code) /\ pc' = "run" /\ clock' = clock

\* the current instruction is a bracket whose jump is due
JumpDue ==
    \/ AtInstruction("[") /\ memory[memptr + 1] = 0
    \/ AtInstruction("]") /\ memory[memptr + 1] # 0

\* C16 as stated: the instruction pointer is advanced by one after every step
\* except an executed jump; after an executed jump it equals the position of
\* the matching bracket recorded in the jump table, without a further increment.
C16_JumpLandsOnBracket ==
    [][ ExecutesAny =>
            codeptr' = IF JumpDue THEN bracemap.map[codeptr] ELSE codeptr + 1 ]_vars

\* C16: the instruction pointer is advanced by one after every step, an executed
\* jump included: after an executed jump it equals the position of the matching
\* bracket recorded in the jump table plus one.
C16_JumpLandsPastBracket ==
    [][ ExecutesAny =>
            codeptr' = IF JumpDue THEN bracemap.map[codeptr] + 1 ELSE codeptr + 1 ]_vars

\* "]" at position 3 was executed on the cell 254 and jumped back: the
\* instruction pointer is one past the "[" at position 1
C16_Witness ==
    /\ pc = "run"
    /\ brainfuck_code = << "-", "[", "-", "]", "." >>
    /\ codeptr = 2
    /\ memory[1] = 254

\* the position of the "]" that closes the "[" at position k of p
MatchingClose(p, k) ==
    CHOOSE j \in (k + 1)..(Len(p) - 1) : p[j + 1] = "]" /\ BalancedRange(p, k + 2, j)
\* the position of the "[" that the "]" at position k of p closes
MatchingOpen(p, k) ==
    CHOOSE j \in 0..(k - 1) : p[j + 1] = "[" /\ BalancedRange(p, j + 2, k)

\* C17: "[" on a zero cell leaves tape, pointer and output alone and the next
\* instruction executed is the one after the matching "]" (no instruction of
\* the body is executed); "]" on a non-zero cell makes the first instruction
\* after the matching "[" the next one executed; "[" on a non-zero cell and "]"
\* on a zero cell fall through to the next position.
C17_LoopControl ==
    [][ /\ (Executes("[") /\ memory[memptr + 1] = 0) =>
            /\ pc' = "run"
            /\ codeptr' = MatchingClose(brainfuck_code, codeptr) + 1
            /\ UNCHANGED << memory, memptr, result >>
        /\ (Executes("]") /\ memory[memptr + 1] # 0) =>
            /\ pc' = "run"
            /\ codeptr' = MatchingOpen(brainfuck_code, codeptr) + 1
        /\ (Executes("[") /\ memory[memptr + 1] # 0) =>
            (pc' = "run" /\ codeptr' = codeptr + 1)
        /\ (Executes("]") /\ memory[memptr + 1] = 0) =>
            (pc' = "run" /\ codeptr' = codeptr + 1) ]_vars

\* "[" was executed on a zero cell: the "-" of the body was not executed (the
\* cell is still 0) and the next instruction is the "." after the "]"
C17_Witness ==
    /\ pc = "run"
    /\ brainfuck_code = << "[", "-", "]", "." >>
    /\ codeptr = 3
    /\ memory[1] = 0
    /\ result = <<>>

-----------------------------------------------------------------------------
(* Resynchronisation of the pairing loop *)

\* the pairs of tokens that are an instruction: all pairs of the three tokens
\* but "ook? ook?"
InstructionPairs ==
    ({ook_dot, ook_exclamation, ook_question} \X {ook_dot, ook_exclamation, ook_question})
        \ { << ook_question, ook_question >> }

\* C18: when the tokens at i and i+1 are not an instruction pair, the pairing
\* loop emits nothing and goes on at i+1 (one token is skipped); and when the
\* transpiler has failed for want of instructions, no two adjacent tokens of
\* the text are an instruction pair (a pair this scan can reach is never lost).
C18_SkipsOneToken ==
    [][ /\ (AtPair /\ << tokens[i + 1], tokens[i + 2] >> \notin InstructionPairs) =>
            /\ pc' = "pairs"
            /\ i' = i + 1
            /\ brainfuck_code' = brainfuck_code
        /\ (Transpiled' /\ brainfuck_code' = <<>>) =>
            \A k \in 1..(Len(tokens') - 1) :
                << tokens'[k], tokens'[k + 1] >> \notin InstructionPairs ]_vars

\* "ook? ook?" is no instruction pair: one token was skipped and the pair
\* "ook? ook." that follows was found
C18_Witness ==
    /\ Transpiled
    /\ tokens = << ook_question, ook_question, ook_dot >>
    /\ brainfuck_code = << "<" >>

-----------------------------------------------------------------------------
(* What a step of the interpreter changes *)

\* C19: execution never changes the program or the jump table; "+", "-" and
\* "," change only the current cell (and "," makes it 0); ">" and "<" change
\* only the tape pointer, apart from the one zero cell ">" may append; "."
\* changes only the output buffer, appending exactly one character whose code
\* point is the current cell; "[" and "]" change neither tape, pointer nor
\* output.  So the output grows by one exactly in "." steps and every character
\* of it has a code point in 0..255.
C19_StepFrames ==
    [][ /\ pc = "run" => UNCHANGED << brainfuck_code, bracemap >>
        /\ \A c \in {"+", "-", ","} :
              Executes(c) => (OnlyCellChanged(memptr) /\ UNCHANGED << memptr, result >>)
        /\ Executes(",") => memory'[memptr + 1] = 0
        /\ Executes(">") =>
              /\ memory' = memory \/ memory' = Append(memory, 0)
              /\ result' = result
        /\ Executes("<") => UNCHANGED << memory, result >>
        /\ Executes(".") =>
              /\ UNCHANGED << memory, memptr >>
              /\ result' = Append(result, memory[memptr + 1])
        /\ \A c \in {"[", "]"} : Executes(c) => UNCHANGED << memory, memptr, result >>
        /\ (pc = "run" /\ ~Executes(".")) => Len(result') = Len(result)
        /\ \A k \in 1..Len(result') : result'[k] \in 0..255 ]_vars

\* "," was executed on a cell holding 255 and "." then appended the one
\* character 0
C19_Witness ==
    /\ pc = "done"
    /\ brainfuck_code = << "-", ",", "." >>
    /\ retval = Str(<< 0 >>)
    /\ memory[1] = 0

\* C20: execution starts with the instruction pointer 0, a tape of 100 zero
\* cells, the tape pointer 0 and an empty output; in a step the tape never gets
\* shorter, gets longer by at most one cell, and only by a cell appended on the
\* right; the tape always has at least 100 cells and the tape pointer is
\* always at least 0 and less than the length of the tape.
C20_TapeInvariants ==
    [][ /\ (pc # "run" /\ pc' = "run") =>
              /\ codeptr' = 0
              /\ memory' = [k \in 1..100 |-> 0]
              /\ memptr' = 0
              /\ result' = <<>>
        /\ pc = "run" =>
              /\ Len(memory') \in { Len(memory), Len(memory) + 1 }
              /\ Len(memory') = Len(memory) + 1 =>
                    SubSeq(memory', 1, Len(memory)) = memory
        /\ pc' = "run" =>
              /\ Len(memory') >= 100
              /\ 0 <= memptr'
              /\ memptr' < Len(memory') ]_vars

\* the tape grew by one cell and the pointer is on the new, last cell
C20_Witness ==
    /\ pc = "done"
    /\ brainfuck_code = << "<", ">", "." >>
    /\ Len(memory) = 101
    /\ memptr = 100
    /\ retval = Str(<< 0 >>)

-----------------------------------------------------------------------------
(* The program decode hands to the validator *)

\* decode has the validator's verdict on the transpiled program
VerdictOnTranspiled == entry = "decode" /\ ValidatorReturned

\* C23: the program decode hands to the validator is made of the eight
\* instruction symbols only, so the validator counts every character of it as
\* legal, and decode's validator rejects a transpiled program only for
\* unbalanced brackets or for want of a ".".
C23_OnlyInstructionsValidated ==
    /\ Transpiled =>
          \A k \in 1..Len(brainfuck_code) :
              brainfuck_code[k] \in {">", "<", "+", "-", ".", ",", "[", "]"}
    /\ (entry = "decode" /\ pc = "scan") => legal_count = idx
    /\ (VerdictOnTranspiled /\ ~isbf) =>
          (~Balanced(brainfuck_code) \/ DotPositions(brainfuck_code) = {})

\* a transpiled program with balanced brackets was rejected for want of a "."
C23_Witness ==
    /\ VerdictOnTranspiled
    /\ pc = "done"
    /\ ~isbf
    /\ brainfuck_code = << "[", "+", "]" >>
    /\ legal_count = 3

\* C24: the pairing loop looks at the tokens i and i+1 only when i+1 is less
\* than the number of tokens and never accesses a token out of range; when the
\* loop ends nothing more is emitted, so a last token without a partner is
\* dropped; a text of no token or of one token yields None.
C24_PairsInRange ==
    [][ /\ (pc = "pairs" /\ (i' # i \/ brainfuck_code' # brainfuck_code)) =>
            /\ 0 <= i
            /\ i + 1 < Len(tokens)
            /\ pc' = "pairs"
        /\ (pc = "pairs" /\ pc' # "pairs") =>
            /\ pc' # "fault"
            /\ i >= Len(tokens) - 1
            /\ UNCHANGED << i, brainfuck_code >>
        /\ (Transpiled' /\ Len(tokens') <= 1) =>
            (pc' = "done" /\ retval' = None /\ brainfuck_code' = <<>>) ]_vars

\* of three tokens the first two made a pair and the third was dropped
C24_Witness ==
    /\ Transpiled
    /\ tokens = << ook_dot, ook_dot, ook_dot >>
    /\ i = 2
    /\ brainfuck_code = << "+" >>

-----------------------------------------------------------------------------
(* The two jump rules *)

\* what the two rules are compared on, and the instruction pointer
Machine ==
    [codeptr |-> codeptr, memory |-> memory, memptr |-> memptr, result |-> result]
MachineAfter ==
    [codeptr |-> codeptr', memory |-> memory', memptr |-> memptr', result |-> result']

\* one step, from m, of program p by the rule that a jump sets the instruction
\* pointer to the matching bracket and does not increment it
LandingStep(p, m) ==
    LET c == p[m.codeptr + 1]
        at == m.memptr + 1
        v == m.memory[at]
    IN  CASE c = "+" -> [m EXCEPT !.memory[at] = (v + 1) % 256, !.codeptr = @ + 1]
          [] c = "-" -> [m EXCEPT !.memory[at] = (v + 255) % 256, !.codeptr = @ + 1]
          [] c = "," -> [m EXCEPT !.memory[at] = 0, !.codeptr = @ + 1]
          [] c = "." -> [m EXCEPT !.result = Append(@, v), !.codeptr = @ + 1]
          [] c = ">" -> [m EXCEPT !.memory = IF at = Len(@) THEN @ \o << 0 >> ELSE @,
                                  !.memptr = @ + 1, !.codeptr = @ + 1]
          [] c = "<" -> [m EXCEPT !.memptr = IF @ = 0 THEN Len(m.memory) - 1 ELSE @ - 1,
                                  !.codeptr = @ + 1]
          [] c = "[" -> [m EXCEPT !.codeptr = IF v = 0 THEN MatchingClose(p, @) ELSE @ + 1]
          [] c = "]" -> [m EXCEPT !.codeptr = IF v # 0 THEN MatchingOpen(p, @) ELSE @ + 1]

\* C22: on every valid program the implemented rule and the rule that a jump
\* lands on the matching bracket, started in the same state, stay together: a
\* step of the implementation that is no jump is the same step by the other
\* rule; a jump of the implementation is two steps by the other rule, the
\* first of which changes only the instruction pointer and does not end the
\* program.  So both produce the same output, final tape and final tape
\* pointer, and one reaches the end of the program exactly when the other does.
C22_JumpRulesAgree ==
    [][ ExecutesAny =>
            LET landed == LandingStep(brainfuck_code, Machine) IN
            IF JumpDue
            THEN /\ landed = [Machine EXCEPT !.codeptr = landed.codeptr]
                 /\ landed.codeptr < Len(brainfuck_code)
                 /\ LandingStep(brainfuck_code, landed) = MachineAfter
            ELSE landed = MachineAfter ]_vars

\* "]" was executed on a non-zero cell after the first "." of the loop: the
\* jump went back into the body
C22_Witness ==
    /\ pc = "run"
    /\ brainfuck_code = << "-", "[", ".", "]" >>
    /\ codeptr = 2
    /\ result = << 255 >>

-----------------------------------------------------------------------------
(* A call that runs alone *)

\* the jump of the instruction at m.codeptr of p is taken
JumpTaken(p, m) ==
    \/ p[m.codeptr + 1] = "[" /\ m.memory[m.memptr + 1] = 0
    \/ p[m.codeptr + 1] = "]" /\ m.memory[m.memptr + 1] # 0

\* one step of p from m: by C16 a jump lands one past the matching bracket
AloneStep(p, m) ==
    IF JumpTaken(p, m)
    THEN [LandingStep(p, m) EXCEPT !.codeptr = @ + 1]
    ELSE LandingStep(p, m)

\* the string p returns from m, if it ends within fuel steps
RECURSIVE AloneRun(_, _, _)
AloneRun(p, m, fuel) ==
    IF m.codeptr >= Len(p) THEN Str(m.result)
    ELSE IF fuel = 0 THEN Pending
    ELSE AloneRun(p, AloneStep(p, m), fuel - 1)

\* what decode returns for the text of program p when no other call runs and
\* the deadline does not pass
AloneResult(p) ==
    IF ~WellFormed(p) THEN None
    ELSE AloneRun(p, [codeptr |-> 0, memory |-> [k \in 1..100 |-> 0],
                      memptr |-> 0, result |-> <<>>], MaxAloneSteps)

AloneResultOf == [t \in ConcInputs |-> AloneResult(CHOOSE p \in ConcPrograms : Encode(p) = t)]

\* the call with locals f has not faulted and, if it returned for another
\* reason than the deadline, returned what it returns alone
ReturnsAsAlone(f) ==
    /\ f.pc # "fault"
    /\ (f.pc = "done" /\ ~(f.isbf /\ f.retval = None)) => f.retval = AloneResultOf[f.ctext]

\* C21: two calls of decode whose steps are interleaved in any order share no
\* mutable state: a step of one call changes nothing of the other, each call
\* goes on with exactly the program, jump table, tape, pointers and output it
\* had when it was suspended, and each, unless its deadline passes, returns
\* what it returns when it runs alone.
C21_CallsDoNotInterfere ==
    [][ /\ ReturnsAsAlone(Frame(0)')
        /\ ReturnsAsAlone(suspended')
        /\ \/ suspended' = suspended
           \/ \E id \in {1, 2} :
                 /\ id = suspended.id
                 /\ suspended' = Frame(3 - id)
                 /\ Frame(id)' = suspended ]_vars

\* one call has returned the string of its program while the other one is in
\* the middle of its loop, on a tape of its own
C21_Witness ==
    /\ pc = "done"
    /\ brainfuck_code = << "<", "+", ".", ">", "." >>
    /\ retval = Str(<< 1, 0 >>)
    /\ suspended.pc = "run"
    /\ suspended.brainfuck_code = << "+", "[", ".", ",", "]" >>
    /\ suspended.codeptr = 4
    /\ suspended.result = << 1 >>
    /\ suspended.memory[1] = 0

====
